---- MODULE Spec2Model ----
(***************************************************************************)
(* Facial keypoint detection: BoundingBox, FaceDetector, KeypointPredictor *)
(* and FacialKeypointsPipeline.                                            *)
(*                                                                         *)
(* One behaviour is one call: Init draws the operation and its arguments,  *)
(* together with what the two external collaborators answer during the     *)
(* call (the rectangles cv2's detectMultiScale reports and the vector the   *)
(* Keras model predicts); the action of the operation then runs the whole  *)
(* method and stores its outcome, its return value and the sequence of     *)
(* collaborator invocations it made.  SpecDetectorCalls alone lets the     *)
(* caller go on with further calls on the same detector.                   *)
(*                                                                         *)
(* Abstractions. An image is its shape (pixels are named by their          *)
(* coordinates, a crop is the rectangle of coordinates it views).  Images  *)
(* are the two documented kinds, shape (H, W) and shape (H, W, 3).         *)
(* Keypoint arithmetic is exact rational arithmetic: float32 rounding is   *)
(* not modelled.                                                           *)
(***************************************************************************)
EXTENDS Integers, Sequences, FiniteSets, TLC

VARIABLES pc, op, image_size, scale_factor, min_neighbors, calls, args,
          outcome, value, log, history

vars == <<pc, op, image_size, scale_factor, min_neighbors, calls, args,
         outcome, value, log, history>>

(***************************************************************************)
(* Bounds of the model.                                                    *)
(***************************************************************************)
MaxDim == 2        \* images have 0..MaxDim rows and columns
MaxCoord == 2      \* box origins range over -MaxCoord..MaxCoord
MaxSide == 2       \* box widths and heights range over 0..MaxSide
MaxBoxes == 2      \* rectangles the classifier reports in one call
MaxK == 2          \* keypoints (pairs) in a predict call
MaxCalls == 2      \* further calls made on one detector after the first
MaxPathLen == 4    \* characters of an image path

(***************************************************************************)
(* Exact rationals <<n, d>>, d > 0, in lowest terms.                       *)
(***************************************************************************)
Abs(i) == IF i < 0 THEN -i ELSE i

RECURSIVE Gcd(_, _)
Gcd(a, b) == IF b = 0 THEN a ELSE Gcd(b, a % b)

Rat(n, d) ==
    LET g == Gcd(Abs(n), Abs(d))
        s == IF d < 0 THEN -1 ELSE 1
    IN  <<(s * n) \div g, (s * d) \div g>>

RatInt(i) == <<i, 1>>
RatMul(p, q) == Rat(p[1] * q[1], p[2] * q[2])
RatAdd(p, q) == Rat(p[1] * q[2] + q[1] * p[2], p[2] * q[2])

\* Python int() of a non-integer: truncation toward zero.
Trunc(p) == IF p[1] >= 0 THEN p[1] \div p[2] ELSE -((-p[1]) \div p[2])

Max(a, b) == IF a >= b THEN a ELSE b
Min(a, b) == IF a <= b THEN a ELSE b

(***************************************************************************)
(* Images and numpy basic slicing.                                         *)
(***************************************************************************)
COLOR_CHANNELS == 3

\* The Python value None.
None == [kind |-> "none", h |-> 0, w |-> 0, ndim |-> 0, channels |-> 0]

\* A numpy array of shape (h, w) when ndim = 2 and (h, w, 3) when ndim = 3.
Array(h, w, ndim) ==
    [kind |-> "array", h |-> h, w |-> w, ndim |-> ndim,
     channels |-> IF ndim = 3 THEN 3 ELSE 1]

\* A numpy array of shape (h, w, 1): three dimensions, one channel.
ArrayOneChannel(h, w) ==
    [kind |-> "array", h |-> h, w |-> w, ndim |-> 3, channels |-> 1]

\* A path handed to process: cv2.imread yields an (h, w, 3) array, or None
\* when the file cannot be read.
PathTo(h, w) == [kind |-> "path", h |-> h, w |-> w, ndim |-> 3, channels |-> 3]
BadPath == [kind |-> "badpath", h |-> 0, w |-> 0, ndim |-> 0, channels |-> 0]

\* ndarray.size: the product of the shape.
ImgSize(a) == a.h * a.w * a.channels

\* slice(start, stop).indices(n) for step 1: a negative index counts from
\* the end, then both ends are clipped to 0..n.
SliceIndex(i, n) ==
    IF i < 0 THEN (IF i + n < 0 THEN 0 ELSE i + n)
    ELSE (IF i > n THEN n ELSE i)

SliceLen(start, stop, n) ==
    LET lo == SliceIndex(start, n)
        hi == SliceIndex(stop, n)
    IN  IF hi > lo THEN hi - lo ELSE 0

\* a[ystart:ystop, xstart:xstop]: the view's origin in the source array and
\* its shape.
View(a, ystart, ystop, xstart, xstop) ==
    [kind |-> "array",
     y0 |-> SliceIndex(ystart, a.h), x0 |-> SliceIndex(xstart, a.w),
     h |-> SliceLen(ystart, ystop, a.h), w |-> SliceLen(xstart, xstop, a.w),
     ndim |-> a.ndim, channels |-> a.channels]

(***************************************************************************)
(* Outcomes of a call: the value returned, or the exception raised, and    *)
(* the collaborator invocations made on the way.                           *)
(***************************************************************************)
NoValue == "no value"

Ev(call, i) == [call |-> call, box |-> i]

Return(v, l) == [outcome |-> "ok", value |-> v, log |-> l]
Raise(e, l) == [outcome |-> e, value |-> NoValue, log |-> l]

\* An optional argument: passed with a value, or left at its default None.
Given(v) == [given |-> TRUE, v |-> v]
NotGiven == [given |-> FALSE]

(***************************************************************************)
(* exceptions.py.  A string is a sequence of pieces: the literals of the   *)
(* code are one piece each, a path is a sequence of characters.            *)
(***************************************************************************)
\* sub in text
Contains(text, sub) ==
    \E i \in 1..(Len(text) + 1) :
        /\ i + Len(sub) - 1 <= Len(text)
        /\ SubSeq(text, i, i + Len(sub) - 1) = sub

\* The exception whose message never names the image.
NoFaceDetectedErrorInitPlain(image_path) ==
    Return([image_path |-> image_path, message |-> <<"No face detected">>], <<>>)

\* NoFaceDetectedError.__init__; image_path is Given(path) or NotGiven (None).
\* "if image_path:" is false for None and for the empty string.
NoFaceDetectedErrorInit(image_path) ==
    LET message == <<"No face detected">>
        named == IF image_path.given /\ image_path.v # <<>>
                 THEN message \o <<" in ">> \o image_path.v
                 ELSE message
    IN  Return([image_path |-> image_path, message |-> named], <<>>)

(***************************************************************************)
(* config.py: the defaults of Settings.                                    *)
(***************************************************************************)
DEFAULT_IMAGE_SIZE == 96
DEFAULT_SCALE_FACTOR == <<6, 5>>      \* 1.2
DEFAULT_MIN_NEIGHBORS == 5
DEFAULT_CASCADE_PATH == "haarcascade_frontalface_default.xml"
DEFAULT_MODEL_PATH == "model.keras"

(***************************************************************************)
(* detection/face_detector.py                                              *)
(***************************************************************************)
\* A per-call parameter that is never taken from the call.
OverrideIgnored(arg, stored) == stored

\* arg if arg is not None else stored
Override(arg, stored) == IF arg.given THEN arg.v ELSE stored

\* The call self._cascade.detectMultiScale(gray, scale, neighbors).
Scan(scale, neighbors) ==
    [call |-> "detectMultiScale", box |-> 0, scale |-> scale,
     neighbors |-> neighbors]

\* Path(path or default): None and the empty string give the default.
PathOr(path, default) == IF path.given /\ path.v # "" THEN path.v ELSE default

\* The constructor keeping a classifier that loaded empty.
FaceDetectorInitKeepsEmpty(cascade_path_arg, scale_factor_arg, min_neighbors_arg, files) ==
    LET cascade_path == PathOr(cascade_path_arg, DEFAULT_CASCADE_PATH)
        self == [cascade_path |-> cascade_path,
                 scale_factor |-> Override(scale_factor_arg, DEFAULT_SCALE_FACTOR),
                 min_neighbors |-> Override(min_neighbors_arg,
                                            DEFAULT_MIN_NEIGHBORS)]
    IN  IF files[cascade_path] = "missing"
        THEN Raise("FaceDetectionError", <<>>)
        ELSE Return([cascade_path |-> self.cascade_path,
                     scale_factor |-> self.scale_factor,
                     min_neighbors |-> self.min_neighbors,
                     cascade |-> [empty |-> files[cascade_path] # "cascade"]],
                    <<Ev("cv2.CascadeClassifier", 0)>>)

\* FaceDetector.__init__; files tells of each path whether a file exists
\* there and what it holds ("missing", "cascade", "model" or "other").
\* cv2.CascadeClassifier gives a non-empty classifier for a cascade file only.
FaceDetectorInit(cascade_path_arg, scale_factor_arg, min_neighbors_arg, files) ==
    LET cascade_path == PathOr(cascade_path_arg, DEFAULT_CASCADE_PATH)
        self == [cascade_path |-> cascade_path,
                 scale_factor |-> Override(scale_factor_arg, DEFAULT_SCALE_FACTOR),
                 min_neighbors |-> Override(min_neighbors_arg,
                                            DEFAULT_MIN_NEIGHBORS)]
    IN  IF files[cascade_path] = "missing"
        THEN Raise("FaceDetectionError", <<>>)
        ELSE LET cascade == [empty |-> files[cascade_path] # "cascade"]
                 loaded == <<Ev("cv2.CascadeClassifier", 0)>>
             IN  IF cascade.empty
                 THEN Raise("FaceDetectionError", loaded)
                 ELSE Return([cascade_path |-> self.cascade_path,
                              scale_factor |-> self.scale_factor,
                              min_neighbors |-> self.min_neighbors,
                              cascade |-> cascade], loaded)

BoundingBox(x, y, width, height) ==
    [x |-> x, y |-> y, width |-> width, height |-> height]

\* BoundingBox(x=..., y=..., width=..., height=...): the __init__ the
\* dataclass generates stores the four arguments; there is no __post_init__.
BoundingBoxInit(x, y, width, height) ==
    Return(BoundingBox(x, y, width, height), <<>>)

\* The centre with the halves rounded up.
centerRoundedUp(b) == <<b.x + (b.width + 1) \div 2, b.y + (b.height + 1) \div 2>>

center(b) == <<b.x + b.width \div 2, b.y + b.height \div 2>>
area(b) == b.width * b.height
to_tuple(b) == <<b.x, b.y, b.width, b.height>>

\* The three derived values of a box, as a caller reads them.
Derived(b) ==
    Return([center |-> center(b), area |-> area(b), to_tuple |-> to_tuple(b)],
           <<>>)

\* A box of a dataclass that is not frozen: the assignment goes through.
SetAttrMutable(b, field, v) ==
    [outcome |-> "ok", value |-> [b EXCEPT ![field] = v], log |-> <<>>]

\* box.<field> = v on the dataclass(frozen=True): the generated __setattr__
\* raises FrozenInstanceError (an AttributeError) before anything is stored.
\* The value is the box as it is after the attempt.
SetAttr(b, field, v) ==
    [outcome |-> "FrozenInstanceError", value |-> b, log |-> <<>>]

\* cv2.cvtColor(image, cv2.COLOR_BGR2GRAY) takes an array of three or four
\* channels and raises cv2.error for any other.
CvtColorAccepts(image) == image.channels \in {3, 4}

\* detect failing when the classifier reports nothing.
DetectRaisesOnNone(self, image, scale_factor_arg, min_neighbors_arg, faces_cv) ==
    IF image.kind = "none" \/ ImgSize(image) = 0
    THEN Raise("InvalidImageError", <<>>)
    ELSE LET gray == IF image.ndim = COLOR_CHANNELS
                     THEN <<Ev("cv2.cvtColor", 0)>> ELSE <<>>
             scale == Override(scale_factor_arg, self.scale_factor)
             neighbors == Override(min_neighbors_arg, self.min_neighbors)
         IN  IF Len(faces_cv) = 0
             THEN Raise("NoFaceDetectedError", gray \o <<Scan(scale, neighbors)>>)
             ELSE Return([i \in 1..Len(faces_cv) |->
                             BoundingBox(faces_cv[i][1], faces_cv[i][2],
                                         faces_cv[i][3], faces_cv[i][4])],
                         gray \o <<Scan(scale, neighbors)>>)

\* detect testing the image for None only: an empty array reaches the
\* classifier.
DetectChecksNoneOnly(self, image, scale_factor_arg, min_neighbors_arg, faces_cv) ==
    IF image.kind = "none"
    THEN Raise("InvalidImageError", <<>>)
    ELSE LET gray == IF image.ndim = COLOR_CHANNELS
                     THEN <<Ev("cv2.cvtColor", 0)>> ELSE <<>>
             scale == Override(scale_factor_arg, self.scale_factor)
             neighbors == Override(min_neighbors_arg, self.min_neighbors)
         IN  Return([i \in 1..Len(faces_cv) |->
                        BoundingBox(faces_cv[i][1], faces_cv[i][2],
                                    faces_cv[i][3], faces_cv[i][4])],
                    gray \o <<Scan(scale, neighbors)>>)

\* FaceDetector.detect; self holds the detector's stored scale_factor and
\* min_neighbors, the two _arg parameters are the per-call overrides, and
\* faces_cv is what self._cascade.detectMultiScale returns for this image, a
\* sequence of rectangles <<x, y, w, h>>.
Detect(self, image, scale_factor_arg, min_neighbors_arg, faces_cv) ==
    IF image.kind = "none" \/ ImgSize(image) = 0
    THEN Raise("InvalidImageError", <<>>)
    ELSE IF image.ndim = COLOR_CHANNELS /\ ~CvtColorAccepts(image)
    THEN Raise("cv2.error", <<Ev("cv2.cvtColor", 0)>>)
    ELSE LET gray == IF image.ndim = COLOR_CHANNELS
                     THEN <<Ev("cv2.cvtColor", 0)>> ELSE <<>>
             scale == Override(scale_factor_arg, self.scale_factor)
             neighbors == Override(min_neighbors_arg, self.min_neighbors)
         IN  Return([i \in 1..Len(faces_cv) |->
                        BoundingBox(faces_cv[i][1], faces_cv[i][2],
                                    faces_cv[i][3], faces_cv[i][4])],
                    gray \o <<Scan(scale, neighbors)>>)

\* A maximum that a later element of equal key replaces (>= for >).
RECURSIVE MaxFromLast(_, _, _)
MaxFromLast(faces, i, best) ==
    IF i > Len(faces) THEN best
    ELSE MaxFromLast(faces, i + 1,
                     IF area(faces[i]) >= area(best) THEN faces[i] ELSE best)

\* max(faces, key=lambda f: f.area): the running maximum is replaced only
\* by a strictly larger key, so the first maximal element wins.
RECURSIVE MaxFrom(_, _, _)
MaxFrom(faces, i, best) ==
    IF i > Len(faces) THEN best
    ELSE MaxFrom(faces, i + 1,
                 IF area(faces[i]) > area(best) THEN faces[i] ELSE best)

MaxByArea(faces) == MaxFrom(faces, 2, faces[1])

\* FaceDetector.detect_single
DetectSingle(self, image, scale_factor_arg, min_neighbors_arg, faces_cv) ==
    LET r == Detect(self, image, scale_factor_arg, min_neighbors_arg, faces_cv)
    IN  IF r.outcome # "ok" THEN r
        ELSE IF Len(r.value) = 0 THEN Raise("NoFaceDetectedError", r.log)
        ELSE Return(MaxByArea(r.value), r.log)

\* FaceDetector.crop_face; padding is a rational <<n, d>>.  The value holds
\* the four slice bounds next to the view that is returned.
CropFace(image, box, padding) ==
    LET h == image.h
        w == image.w
        pad_x == Trunc(RatMul(RatInt(box.width), padding))
        pad_y == Trunc(RatMul(RatInt(box.height), padding))
        x1 == Max(0, box.x - pad_x)
        y1 == Max(0, box.y - pad_y)
        x2 == Min(w, box.x + box.width + pad_x)
        y2 == Min(h, box.y + box.height + pad_y)
    IN  Return([x1 |-> x1, y1 |-> y1, x2 |-> x2, y2 |-> y2,
                crop |-> View(image, y1, y2, x1, x2)], <<>>)

(***************************************************************************)
(* models/predictor.py                                                     *)
(***************************************************************************)
\* KeypointPredictor.__init__; keras.models.load_model returns a model for a
\* model file and raises for any other file.
KeypointPredictorInit(model_path_arg, image_size_arg, files) ==
    LET model_path == PathOr(model_path_arg, DEFAULT_MODEL_PATH)
        size == Override(image_size_arg, DEFAULT_IMAGE_SIZE)
    IN  IF files[model_path] = "missing"
        THEN Raise("ModelLoadError", <<>>)
        ELSE LET loading == <<Ev("keras.models.load_model", 0)>>
             IN  IF files[model_path] # "model"
                 THEN Raise("ModelLoadError", loading)
                 ELSE Return([model_path |-> model_path, image_size |-> size,
                              model |-> "loaded"], loading)

\* KeypointPredictor.preprocess: the collaborator calls it makes.  The
\* resized array always has shape (image_size, image_size).
Preprocess(image) ==
    (IF image.ndim = 3 THEN <<Ev("cv2.cvtColor", 0)>> ELSE <<>>)
        \o <<Ev("cv2.resize", 0)>>

\* The reshape reading all x first and all y after them.
Reshape2Planar(flat) ==
    [k \in 1..(Len(flat) \div 2) |-> <<flat[k], flat[(Len(flat) \div 2) + k]>>]

\* keypoints.reshape(-1, 2): row k holds elements 2k-1 and 2k (1-based).
Reshape2(flat) ==
    [k \in 1..(Len(flat) \div 2) |-> <<flat[2 * k - 1], flat[2 * k]>>]

\* KeypointPredictor.predict; raw is the flat vector self._model.predict
\* returns for the preprocessed image.
Predict(image, raw, denormalize) ==
    LET raw_output == raw
        keypoints == IF denormalize
                     THEN [i \in 1..Len(raw_output) |-> raw_output[i] * 48 + 48]
                     ELSE raw_output
    IN  Return([keypoints |-> Reshape2(keypoints), raw_output |-> raw_output],
               Preprocess(image) \o <<Ev("model.predict", 0)>>)

\* predict_on_original with the crop origin added before the scaling.
PredictOnOriginalTranslateFirst(size, face_crop, bbox_x, bbox_y, original_shape, raw) ==
    LET prediction == Predict(face_crop, raw, TRUE)
        scale_x == Rat(original_shape[2], size)
        scale_y == Rat(original_shape[1], size)
        kp == prediction.value.keypoints
    IN  Return([k \in 1..Len(kp) |->
                   <<RatMul(RatAdd(RatInt(kp[k][1]), RatInt(bbox_x)), scale_x),
                     RatMul(RatAdd(RatInt(kp[k][2]), RatInt(bbox_y)), scale_y)>>],
               prediction.log)

\* KeypointPredictor.predict_on_original; original_shape is <<height, width>>.
\* The value is the keypoints array, each coordinate an exact rational.
PredictOnOriginal(size, face_crop, bbox_x, bbox_y, original_shape, raw) ==
    LET prediction == Predict(face_crop, raw, TRUE)
        scale_x == Rat(original_shape[2], size)
        scale_y == Rat(original_shape[1], size)
        kp == prediction.value.keypoints
    IN  Return([k \in 1..Len(kp) |->
                   <<RatAdd(RatMul(RatInt(kp[k][1]), scale_x), RatInt(bbox_x)),
                     RatAdd(RatMul(RatInt(kp[k][2]), scale_y), RatInt(bbox_y))>>],
               prediction.log)

(***************************************************************************)
(* data/loader.py                                                          *)
(***************************************************************************)
\* The training targets with their range cut in half.
NormalizeHalfRange(c) == Rat(c - 48, 96)

\* load_data: the normalisation of one training coordinate, y = (y - 48) / 48.
Normalize(c) == Rat(c - 48, 48)

(***************************************************************************)
(* pipeline.py                                                             *)
(***************************************************************************)
FaceKeypointsResult(bounding_box, keypoints) ==
    [bounding_box |-> bounding_box, keypoints |-> keypoints, confidence |-> 1]

PipelineResult(image, faces) == [image |-> image, faces |-> faces]

n_faces(result) == Len(result.faces)

\* result.<field> = v on FaceKeypointsResult or PipelineResult: both are
\* plain dataclasses (no frozen=True), so the attribute is rebound.
SetField(result, field, v) == [result EXCEPT ![field] = v]

\* PipelineResult.faces is a list: a caller may append to it, pop its last
\* entry or reverse it in place.
ListEdit(faces, edit, entry) ==
    CASE edit = "append" -> Append(faces, entry)
      [] edit = "pop" -> SubSeq(faces, 1, Len(faces) - 1)
      [] edit = "reverse" -> [i \in 1..Len(faces) |-> faces[Len(faces) + 1 - i]]

\* The invocations of one loop iteration, tagged with the box they serve.
ForBox(l, i) == [j \in 1..Len(l) |-> [l[j] EXCEPT !.box = i]]

\* The constructor going on without a predictor when the model fails to load.
PipelineInitPartial(cascade_path_arg, model_path_arg, scale_factor_arg, min_neighbors_arg, files) ==
    LET d == FaceDetectorInit(cascade_path_arg, scale_factor_arg,
                              min_neighbors_arg, files)
    IN  IF d.outcome # "ok" THEN Raise(d.outcome, d.log)
        ELSE LET p == KeypointPredictorInit(model_path_arg, NotGiven, files)
             IN  Return([face_detector |-> d.value, keypoint_predictor |-> p.value],
                        d.log \o p.log)

\* FacialKeypointsPipeline.__init__: the detector first, then the predictor;
\* an exception of either constructor leaves __init__ at once.
PipelineInit(cascade_path_arg, model_path_arg, scale_factor_arg, min_neighbors_arg, files) ==
    LET d == FaceDetectorInit(cascade_path_arg, scale_factor_arg,
                              min_neighbors_arg, files)
    IN  IF d.outcome # "ok" THEN Raise(d.outcome, d.log)
        ELSE LET p == KeypointPredictorInit(model_path_arg, NotGiven, files)
             IN  IF p.outcome # "ok" THEN Raise(p.outcome, d.log \o p.log)
                 ELSE Return([face_detector |-> d.value,
                              keypoint_predictor |-> p.value],
                             d.log \o p.log)

\* The call process makes to predict_on_original for the i-th box, with the
\* arguments it hands over.
Passed(i, face_crop, bbox_x, bbox_y, original_shape) ==
    [call |-> "predict_on_original", box |-> i, face_crop |-> face_crop,
     bbox_x |-> bbox_x, bbox_y |-> bbox_y, original_shape |-> original_shape]

\* The inline crop of process: img[y : y + height, x : x + width].
InlineCrop(img, box) ==
    View(img, box.y, box.y + box.height, box.x, box.x + box.width)

\* The loop with original_shape handed over as (width, height).
RECURSIVE ProcessLoopSwappedShape(_, _, _, _, _, _, _)
ProcessLoopSwappedShape(size, img, boxes, i, faces, l, model_out) ==
    IF i > Len(boxes) THEN [faces |-> faces, log |-> l]
    ELSE LET box == boxes[i]
             face_crop == InlineCrop(img, box)
             cropped == l \o <<Ev("crop", i)>>
         IN  IF ImgSize(face_crop) = 0
             THEN ProcessLoopSwappedShape(size, img, boxes, i + 1, faces, cropped,
                                          model_out)
             ELSE LET original_shape == <<box.width, box.height>>
                      p == PredictOnOriginal(size, face_crop, box.x, box.y,
                                             original_shape, model_out[i])
                      called == cropped \o <<Passed(i, face_crop, box.x, box.y,
                                                    original_shape)>>
                  IN  ProcessLoopSwappedShape(size, img, boxes, i + 1,
                          Append(faces, FaceKeypointsResult(box, p.value)),
                          called \o ForBox(p.log, i), model_out)

\* The loop predicting for every box, whatever its crop.
RECURSIVE ProcessLoopNoSkip(_, _, _, _, _, _, _)
ProcessLoopNoSkip(size, img, boxes, i, faces, l, model_out) ==
    IF i > Len(boxes) THEN [faces |-> faces, log |-> l]
    ELSE LET box == boxes[i]
             face_crop == InlineCrop(img, box)
             cropped == l \o <<Ev("crop", i)>>
             original_shape == <<box.height, box.width>>
             p == PredictOnOriginal(size, face_crop, box.x, box.y,
                                    original_shape, model_out[i])
             called == cropped \o <<Passed(i, face_crop, box.x, box.y,
                                           original_shape)>>
         IN  ProcessLoopNoSkip(size, img, boxes, i + 1,
                 Append(faces, FaceKeypointsResult(box, p.value)),
                 called \o ForBox(p.log, i), model_out)

\* The loop walking the boxes from the last to the first.
RECURSIVE ProcessLoopBackwards(_, _, _, _, _, _, _)
ProcessLoopBackwards(size, img, boxes, i, faces, l, model_out) ==
    IF i > Len(boxes) THEN [faces |-> faces, log |-> l]
    ELSE LET at == Len(boxes) + 1 - i
             box == boxes[at]
             face_crop == InlineCrop(img, box)
             cropped == l \o <<Ev("crop", at)>>
         IN  IF ImgSize(face_crop) = 0
             THEN ProcessLoopBackwards(size, img, boxes, i + 1, faces, cropped,
                                       model_out)
             ELSE LET original_shape == <<box.height, box.width>>
                      p == PredictOnOriginal(size, face_crop, box.x, box.y,
                                             original_shape, model_out[at])
                      called == cropped \o <<Passed(at, face_crop, box.x, box.y,
                                                    original_shape)>>
                  IN  ProcessLoopBackwards(size, img, boxes, i + 1,
                          Append(faces, FaceKeypointsResult(box, p.value)),
                          called \o ForBox(p.log, at), model_out)

\* The loop leaving at the first empty crop (break for continue).
RECURSIVE ProcessLoopBreak(_, _, _, _, _, _, _)
ProcessLoopBreak(size, img, boxes, i, faces, l, model_out) ==
    IF i > Len(boxes) THEN [faces |-> faces, log |-> l]
    ELSE LET box == boxes[i]
             face_crop == InlineCrop(img, box)
             cropped == l \o <<Ev("crop", i)>>
         IN  IF ImgSize(face_crop) = 0
             THEN [faces |-> faces, log |-> cropped]
             ELSE LET original_shape == <<box.height, box.width>>
                      p == PredictOnOriginal(size, face_crop, box.x, box.y,
                                             original_shape, model_out[i])
                      called == cropped \o <<Passed(i, face_crop, box.x, box.y,
                                                    original_shape)>>
                  IN  ProcessLoopBreak(size, img, boxes, i + 1,
                          Append(faces, FaceKeypointsResult(box, p.value)),
                          called \o ForBox(p.log, i), model_out)

\* The for-loop of process over boxes[i..]; model_out[i] is the vector the
\* network predicts for the crop of the i-th box.
RECURSIVE ProcessLoop(_, _, _, _, _, _, _)
ProcessLoop(size, img, boxes, i, faces, l, model_out) ==
    IF i > Len(boxes) THEN [faces |-> faces, log |-> l]
    ELSE LET box == boxes[i]
             face_crop == InlineCrop(img, box)
             cropped == l \o <<Ev("crop", i)>>
         IN  IF ImgSize(face_crop) = 0
             THEN ProcessLoop(size, img, boxes, i + 1, faces, cropped, model_out)
             ELSE LET original_shape == <<box.height, box.width>>
                      p == PredictOnOriginal(size, face_crop, box.x, box.y,
                                             original_shape, model_out[i])
                      called == cropped \o <<Passed(i, face_crop, box.x, box.y,
                                                    original_shape)>>
                  IN  ProcessLoop(size, img, boxes, i + 1,
                          Append(faces, FaceKeypointsResult(box, p.value)),
                          called \o ForBox(p.log, i), model_out)

\* The image process works on: a path is read with cv2.imread, which gives
\* a BGR array or None; an array is taken as it is.
IsPath(image) == image.kind \in {"path", "badpath"}

Load(image) ==
    IF IsPath(image)
    THEN (IF image.kind = "badpath" THEN None ELSE Array(image.h, image.w, 3))
    ELSE image

\* process answering an unreadable path or an empty image with an empty
\* result instead of raising.
ProcessSwallowsBadInput(face_detector, size, image, detect_all, faces_cv, model_out) ==
    LET img == Load(image)
        loaded == IF IsPath(image) THEN <<Ev("cv2.imread", 0)>> ELSE <<>>
    IN  IF img.kind = "none" \/ ImgSize(img) = 0
        THEN Return(PipelineResult(img, <<>>), loaded)
        ELSE LET det == IF detect_all
                        THEN Detect(face_detector, img, NotGiven, NotGiven,
                                    faces_cv)
                        ELSE DetectSingle(face_detector, img, NotGiven,
                                          NotGiven, faces_cv)
             IN  IF det.outcome # "ok" THEN Raise(det.outcome, loaded \o det.log)
                 ELSE LET boxes == IF detect_all THEN det.value ELSE <<det.value>>
                          done == ProcessLoop(size, img, boxes, 1, <<>>,
                                              loaded \o det.log, model_out)
                      IN  Return(PipelineResult(img, done.faces), done.log)

\* FacialKeypointsPipeline.process; face_detector is self.face_detector and
\* size is self.keypoint_predictor.image_size.
Process(face_detector, size, image, detect_all, faces_cv, model_out) ==
    LET img == Load(image)
        loaded == IF IsPath(image) THEN <<Ev("cv2.imread", 0)>> ELSE <<>>
    IN  IF IsPath(image) /\ img = None THEN Raise("InvalidImageError", loaded)
        ELSE IF img.kind = "none" \/ ImgSize(img) = 0
        THEN Raise("InvalidImageError", loaded)
        ELSE LET det == IF detect_all
                        THEN Detect(face_detector, img, NotGiven, NotGiven,
                                    faces_cv)
                        ELSE DetectSingle(face_detector, img, NotGiven,
                                          NotGiven, faces_cv)
             IN  IF det.outcome # "ok" THEN Raise(det.outcome, loaded \o det.log)
                 ELSE LET boxes == IF detect_all THEN det.value ELSE <<det.value>>
                          done == ProcessLoop(size, img, boxes, 1, <<>>,
                                              loaded \o det.log, model_out)
                      IN  Return(PipelineResult(img, done.faces), done.log)

\* FacialKeypointsPipeline.process_single: result.faces[0]
ProcessSingle(face_detector, size, image, faces_cv, model_out) ==
    LET r == Process(face_detector, size, image, FALSE, faces_cv, model_out)
    IN  IF r.outcome # "ok" THEN r
        ELSE IF Len(r.value.faces) = 0 THEN Raise("IndexError", r.log)
        ELSE Return(r.value.faces[1], r.log)

(***************************************************************************)
(* The inputs of a call.                                                   *)
(***************************************************************************)

\* Settings.image_size: the default and the smallest value allowed.
ImageSizes == {32, DEFAULT_IMAGE_SIZE}

Coords == (-MaxCoord)..MaxCoord
Sides == 0..MaxSide

\* Rectangles <<x, y, w, h>> as the classifier reports them.
Rects == {<<x, y, w, h>> : x \in Coords, y \in Coords, w \in Sides, h \in Sides}

\* The rectangles that sequences of several detections are built from.
ListRects ==
    {<<c, c, s, s>> : c \in {-MaxCoord, 0, MaxCoord}, s \in {0, 1, MaxSide}}

RECURSIVE SeqsUpTo(_, _)
SeqsUpTo(S, n) ==
    IF n = 0 THEN {<<>>}
    ELSE LET shorter == SeqsUpTo(S, n - 1)
         IN  shorter \cup {Append(q, e) : q \in {t \in shorter : Len(t) = n - 1},
                                          e \in S}

RectLists == SeqsUpTo(ListRects, MaxBoxes)

RawVals == {-1, 0, 1}

\* Flat model outputs of 1..MaxK keypoints.
RawVectors == UNION {[1..(2 * k) -> RawVals] : k \in 1..MaxK}

\* Outputs of one keypoint.
PointVectors == {<<a, b>> : a \in RawVals, b \in RawVals}
UniformVectors == {<<a, a>> : a \in RawVals}

Paddings == {<<0, 1>>, <<1, 2>>, <<1, 1>>}

DetectorImages ==
    {None} \cup {Array(h, w, n) : h \in {0, MaxDim}, w \in {0, MaxDim}, n \in {2, 3}}

PipelineImages ==
    {None, BadPath, PathTo(MaxDim, MaxDim), Array(0, MaxDim, 2), Array(MaxDim, MaxDim, 3)}
        \cup {Array(h, w, 2) : h \in 1..MaxDim, w \in 1..MaxDim}

SingleImages == {Array(MaxDim, MaxDim, 2), Array(1, MaxDim, 2)}

\* The concrete scenario of the specification: a 96x96 grayscale image, one
\* detection (10, 10, 50, 50) and a network that answers 30 zeros.
ScenarioImage == Array(96, 96, 2)
ScenarioRect == <<10, 10, 50, 50>>
ScenarioOutput == [i \in 1..30 |-> 0]

\* What lies at each path a constructor may open.
CascadePaths == {DEFAULT_CASCADE_PATH, "custom.xml"}
ModelPaths == {DEFAULT_MODEL_PATH, "custom.keras"}
FileKinds == {"missing", "cascade", "model", "other"}
NoFiles == [f \in CascadePaths \cup ModelPaths |-> "missing"]

NoArgs ==
    [image |-> None, detect_all |-> TRUE, faces_cv |-> <<>>, model_out |-> <<>>,
     box |-> BoundingBox(0, 0, 0, 0), padding |-> <<0, 1>>,
     bbox_x |-> 0, bbox_y |-> 0, original_shape |-> <<0, 0>>,
     denormalize |-> TRUE,
     scale_factor |-> NotGiven, min_neighbors |-> NotGiven,
     cascade_path |-> NotGiven, model_path |-> NotGiven,
     image_size |-> NotGiven, files |-> NoFiles,
     field |-> "x", new_value |-> 0, rect |-> <<0, 0, 0, 0>>,
     image_path |-> NotGiven]

\* One output per box, the same for each.
Repeat(v, n) == [i \in 1..n |-> v]

\* The arguments of a call of each operation.
DrawDetect ==
    \E im \in DetectorImages, f \in RectLists :
        /\ image_size = DEFAULT_IMAGE_SIZE
        /\ args = [NoArgs EXCEPT !.image = im, !.faces_cv = f]

DrawCropFace ==
    \E h \in 0..MaxDim, w \in 0..MaxDim, r \in Rects, p \in Paddings :
        /\ image_size = DEFAULT_IMAGE_SIZE
        /\ args = [NoArgs EXCEPT !.image = Array(h, w, 2),
                                 !.box = BoundingBox(r[1], r[2], r[3], r[4]),
                                 !.padding = p]

DrawPredict ==
    \E s \in ImageSizes, h \in 1..MaxDim, w \in 1..MaxDim, n \in {2, 3},
       v \in RawVectors, d \in BOOLEAN :
        /\ image_size = s
        /\ args = [NoArgs EXCEPT !.image = Array(h, w, n), !.model_out = <<v>>,
                                 !.denormalize = d]

DrawPredictOnOriginal ==
    \E s \in ImageSizes, c \in (1..MaxDim) \X (1..MaxDim), v \in PointVectors,
       b \in Coords \X Coords, o \in (1..MaxSide) \X (1..MaxSide) :
        /\ image_size = s
        /\ args = [NoArgs EXCEPT !.image = Array(c[1], c[2], 2),
                                 !.model_out = <<v>>,
                                 !.bbox_x = b[1], !.bbox_y = b[2],
                                 !.original_shape = o]

\* Several detections; one detection anywhere; the scenario.
DrawPipeline(detect_alls) ==
    \/ \E im \in PipelineImages, a \in detect_alls, f \in RectLists,
          v \in UniformVectors :
          /\ image_size = DEFAULT_IMAGE_SIZE
          /\ args = [NoArgs EXCEPT !.image = im, !.detect_all = a,
                                   !.faces_cv = f,
                                   !.model_out = Repeat(v, Len(f))]
    \/ \E s \in ImageSizes, im \in SingleImages, a \in detect_alls,
          r \in Rects, v \in PointVectors :
          /\ image_size = s
          /\ args = [NoArgs EXCEPT !.image = im, !.detect_all = a,
                                   !.faces_cv = <<r>>, !.model_out = <<v>>]
    \/ \E a \in detect_alls :
          /\ image_size = DEFAULT_IMAGE_SIZE
          /\ args = [NoArgs EXCEPT !.image = ScenarioImage, !.detect_all = a,
                                   !.faces_cv = <<ScenarioRect>>,
                                   !.model_out = <<ScenarioOutput>>]

\* The arguments of the constructors and the files they find.
PathArgs(paths) == {NotGiven, Given("")} \cup {Given(f) : f \in paths}

DrawFaceDetector ==
    \E c \in PathArgs(CascadePaths), s \in {NotGiven, Given(<<3, 2>>)},
       n \in {NotGiven, Given(10)},
       fs \in [CascadePaths -> {"missing", "cascade", "other"}] :
        /\ image_size = DEFAULT_IMAGE_SIZE
        /\ args = [NoArgs EXCEPT !.cascade_path = c, !.scale_factor = s,
                                 !.min_neighbors = n,
                                 !.files = fs @@ NoFiles]

DrawKeypointPredictor ==
    \E m \in PathArgs(ModelPaths), z \in {NotGiven} \cup {Given(i) : i \in ImageSizes},
       fs \in [ModelPaths -> {"missing", "model", "other"}] :
        /\ image_size = DEFAULT_IMAGE_SIZE
        /\ args = [NoArgs EXCEPT !.model_path = m, !.image_size = z,
                                 !.files = fs @@ NoFiles]

DrawPipelineInit ==
    \E c \in PathArgs(CascadePaths), m \in PathArgs(ModelPaths),
       s \in {NotGiven, Given(<<3, 2>>)}, n \in {NotGiven, Given(10)},
       fc \in [CascadePaths -> {"missing", "cascade", "other"}],
       fm \in [ModelPaths -> {"missing", "model", "other"}] :
        /\ image_size = DEFAULT_IMAGE_SIZE
        /\ args = [NoArgs EXCEPT !.cascade_path = c, !.model_path = m,
                                 !.scale_factor = s, !.min_neighbors = n,
                                 !.files = fc @@ fm]

\* A box to read, and a field of it to assign.
BoxFields == {"x", "y", "width", "height"}

DrawBoundingBox ==
    \E r \in Rects :
        /\ image_size = DEFAULT_IMAGE_SIZE
        /\ args = [NoArgs EXCEPT !.box = BoundingBox(r[1], r[2], r[3], r[4])]

DrawNewBox ==
    \E x \in Coords, y \in Coords, w \in (-MaxSide)..MaxSide,
       h \in (-MaxSide)..MaxSide :
        /\ image_size = DEFAULT_IMAGE_SIZE
        /\ args = [NoArgs EXCEPT !.rect = <<x, y, w, h>>]

DrawSetAttr ==
    \E r \in Rects, f \in BoxFields, v \in Coords :
        /\ image_size = DEFAULT_IMAGE_SIZE
        /\ args = [NoArgs EXCEPT !.box = BoundingBox(r[1], r[2], r[3], r[4]),
                                 !.field = f, !.new_value = v]

\* Calls of process whose result the caller goes on to use.
ResultRects == {<<0, 0, 1, 1>>, <<0, 0, MaxSide, MaxSide>>, <<MaxCoord, MaxCoord, 1, 1>>}

DrawResults ==
    \E h \in 1..MaxDim, w \in 1..MaxDim, f \in SeqsUpTo(ResultRects, MaxBoxes),
       a \in BOOLEAN, v \in UniformVectors :
        /\ image_size = DEFAULT_IMAGE_SIZE
        /\ args = [NoArgs EXCEPT !.image = Array(h, w, 2), !.detect_all = a,
                                 !.faces_cv = f, !.model_out = Repeat(v, Len(f))]

\* Image paths of up to MaxPathLen characters, the empty string included.
PathChars == {"/", "a", "."}
ImagePaths == SeqsUpTo(PathChars, MaxPathLen)

DrawNoFaceDetectedError ==
    \E p \in {NotGiven} \cup {Given(q) : q \in ImagePaths} :
        /\ image_size = DEFAULT_IMAGE_SIZE
        /\ args = [NoArgs EXCEPT !.image_path = p]

Draw(o) ==
    CASE o \in {"detect", "detect_single"} -> DrawDetect
      [] o = "crop_face" -> DrawCropFace
      [] o = "predict" -> DrawPredict
      [] o = "predict_on_original" -> DrawPredictOnOriginal
      [] o = "process" -> DrawPipeline(BOOLEAN)
      [] o = "process_single" -> DrawPipeline({FALSE})
      [] o = "BoundingBox" -> DrawBoundingBox
      [] o = "setattr" -> DrawSetAttr
      [] o = "BoundingBox_init" -> DrawNewBox
      [] o = "NoFaceDetectedError" -> DrawNoFaceDetectedError
      [] o = "FaceDetector" -> DrawFaceDetector
      [] o = "KeypointPredictor" -> DrawKeypointPredictor
      [] o = "FacialKeypointsPipeline" -> DrawPipelineInit

(***************************************************************************)
(* The state machine: a call is drawn, then the operation runs.            *)
(***************************************************************************)
Operations ==
    {"detect", "detect_single", "crop_face", "predict", "predict_on_original",
     "process", "process_single", "BoundingBox", "setattr", "BoundingBox_init",
     "NoFaceDetectedError", "FaceDetector",
     "KeypointPredictor", "FacialKeypointsPipeline"}

\* The detector object the calls are made on.
FaceDetectorSelf == [scale_factor |-> scale_factor, min_neighbors |-> min_neighbors]

InitOf(ops) ==
    /\ pc = "ready"
    /\ scale_factor = DEFAULT_SCALE_FACTOR
    /\ min_neighbors = DEFAULT_MIN_NEIGHBORS
    /\ calls = 0
    /\ history = {}
    /\ outcome = "pending"
    /\ value = NoValue
    /\ log = <<>>
    /\ \E o \in ops : op = o /\ Draw(o)

Finish(r) ==
    /\ pc' = "done"
    /\ outcome' = r.outcome
    /\ value' = r.value
    /\ log' = r.log
    /\ UNCHANGED <<op, image_size, scale_factor, min_neighbors, calls, args,
                   history>>

detect ==
    /\ pc = "ready" /\ op = "detect"
    /\ Finish(Detect(FaceDetectorSelf, args.image, args.scale_factor,
                     args.min_neighbors, args.faces_cv))

detect_single ==
    /\ pc = "ready" /\ op = "detect_single"
    /\ Finish(DetectSingle(FaceDetectorSelf, args.image, args.scale_factor,
                           args.min_neighbors, args.faces_cv))

crop_face ==
    /\ pc = "ready" /\ op = "crop_face"
    /\ Finish(CropFace(args.image, args.box, args.padding))

predict ==
    /\ pc = "ready" /\ op = "predict"
    /\ Finish(Predict(args.image, args.model_out[1], args.denormalize))

predict_on_original ==
    /\ pc = "ready" /\ op = "predict_on_original"
    /\ Finish(PredictOnOriginal(image_size, args.image, args.bbox_x, args.bbox_y,
                                args.original_shape, args.model_out[1]))

\* process leaving the height of the image behind as the predictor's
\* input size.
process_keeps_size ==
    /\ pc = "ready" /\ op = "process"
    /\ LET r == Process(FaceDetectorSelf, image_size, args.image, args.detect_all,
                        args.faces_cv, args.model_out)
       IN  /\ pc' = "done"
           /\ outcome' = r.outcome
           /\ value' = r.value
           /\ log' = r.log
           /\ image_size' = IF args.image.h > 0 THEN args.image.h ELSE image_size
    /\ UNCHANGED <<op, scale_factor, min_neighbors, calls, args, history>>

process ==
    /\ pc = "ready" /\ op = "process"
    /\ Finish(Process(FaceDetectorSelf, image_size, args.image, args.detect_all, args.faces_cv,
                      args.model_out))

process_single ==
    /\ pc = "ready" /\ op = "process_single"
    /\ Finish(ProcessSingle(FaceDetectorSelf, image_size, args.image, args.faces_cv,
                            args.model_out))

\* The detector alone.
InitDetector == InitOf({"detect", "detect_single", "crop_face"})
NextDetector == detect \/ detect_single \/ crop_face
SpecDetector == InitDetector /\ [][NextDetector]_vars

\* The predictor alone.
InitPredictor == InitOf({"predict", "predict_on_original"})
NextPredictor == predict \/ predict_on_original
SpecPredictor == InitPredictor /\ [][NextPredictor]_vars

\* The pipeline.
InitPipeline == InitOf({"process", "process_single"})
NextPipeline == process \/ process_single
SpecPipeline == InitPipeline /\ [][NextPipeline]_vars

\* BoundingBox: reading the derived values, and assigning a field.
bounding_box ==
    /\ pc = "ready" /\ op = "BoundingBox"
    /\ Finish(Derived(args.box))

setattr ==
    /\ pc = "ready" /\ op = "setattr"
    /\ Finish(SetAttr(args.box, args.field, args.new_value))

BoundingBox_init ==
    /\ pc = "ready" /\ op = "BoundingBox_init"
    /\ Finish(BoundingBoxInit(args.rect[1], args.rect[2], args.rect[3],
                              args.rect[4]))

InitBoundingBox == InitOf({"BoundingBox", "setattr", "BoundingBox_init"})
NextBoundingBox == bounding_box \/ setattr \/ BoundingBox_init
SpecBoundingBox == InitBoundingBox /\ [][NextBoundingBox]_vars

\* The exception created by a caller.
NoFaceDetectedError_init ==
    /\ pc = "ready" /\ op = "NoFaceDetectedError"
    /\ Finish(NoFaceDetectedErrorInit(args.image_path))

InitErrors == InitOf({"NoFaceDetectedError"})
NextErrors == NoFaceDetectedError_init
SpecErrors == InitErrors /\ [][NextErrors]_vars

\* The detector on arrays of every shape a caller may hand over: (H, W),
\* (H, W, 1) and (H, W, 3).
DrawShapes ==
    \E h \in 1..MaxDim, w \in 1..MaxDim, f \in RectLists :
        \E im \in {Array(h, w, 2), ArrayOneChannel(h, w), Array(h, w, 3)} :
            /\ image_size = DEFAULT_IMAGE_SIZE
            /\ args = [NoArgs EXCEPT !.image = im, !.faces_cv = f]

InitShapes ==
    /\ pc = "ready"
    /\ scale_factor = DEFAULT_SCALE_FACTOR
    /\ min_neighbors = DEFAULT_MIN_NEIGHBORS
    /\ calls = 0
    /\ history = {}
    /\ outcome = "pending"
    /\ value = NoValue
    /\ log = <<>>
    /\ op \in {"detect", "detect_single"}
    /\ DrawShapes
NextShapes == detect \/ detect_single
SpecShapes == InitShapes /\ [][NextShapes]_vars

\* The constructors.
FaceDetector_init ==
    /\ pc = "ready" /\ op = "FaceDetector"
    /\ Finish(FaceDetectorInit(args.cascade_path, args.scale_factor,
                               args.min_neighbors, args.files))

KeypointPredictor_init ==
    /\ pc = "ready" /\ op = "KeypointPredictor"
    /\ Finish(KeypointPredictorInit(args.model_path, args.image_size, args.files))

FacialKeypointsPipeline_init ==
    /\ pc = "ready" /\ op = "FacialKeypointsPipeline"
    /\ Finish(PipelineInit(args.cascade_path, args.model_path, args.scale_factor,
                           args.min_neighbors, args.files))

InitConstruction ==
    InitOf({"FaceDetector", "KeypointPredictor", "FacialKeypointsPipeline"})
NextConstruction ==
    FaceDetector_init \/ KeypointPredictor_init \/ FacialKeypointsPipeline_init
SpecConstruction == InitConstruction /\ [][NextConstruction]_vars

\* A detector constructed with any parameters, called again and again, with
\* and without per-call overrides.
ScaleFactors == {DEFAULT_SCALE_FACTOR, <<3, 2>>}
NeighborCounts == {DEFAULT_MIN_NEIGHBORS, 3}
ScaleOverrides == {NotGiven, Given(<<11, 10>>), Given(<<3, 2>>)}
NeighborOverrides == {NotGiven, Given(0), Given(3)}

DetectorCalls ==
    {[op |-> o,
      args |-> [NoArgs EXCEPT !.image = im, !.faces_cv = f,
                              !.scale_factor = s, !.min_neighbors = n]] :
        o \in {"detect", "detect_single"},
        im \in {None, Array(MaxDim, MaxDim, 2)},
        f \in {<<>>, <<<<0, 0, MaxSide, MaxSide>>>>},
        s \in ScaleOverrides, n \in NeighborOverrides}

\* The caller makes one more call on the same detector.
call_again ==
    /\ pc = "done" /\ calls < MaxCalls
    /\ calls' = calls + 1
    /\ pc' = "ready"
    /\ outcome' = "pending"
    /\ value' = NoValue
    /\ log' = <<>>
    /\ \E c \in DetectorCalls : op' = c.op /\ args' = c.args
    /\ UNCHANGED <<image_size, scale_factor, min_neighbors, history>>

InitDetectorCalls ==
    /\ pc = "ready"
    /\ image_size = DEFAULT_IMAGE_SIZE
    /\ scale_factor \in ScaleFactors
    /\ min_neighbors \in NeighborCounts
    /\ calls = 0
    /\ history = {}
    /\ outcome = "pending"
    /\ value = NoValue
    /\ log = <<>>
    /\ \E c \in DetectorCalls : op = c.op /\ args = c.args
NextDetectorCalls == detect \/ detect_single \/ call_again
SpecDetectorCalls == InitDetectorCalls /\ [][NextDetectorCalls]_vars

\* One pipeline called again and again, with a deterministic classifier and
\* a deterministic network: what they answer is a function of the image.
CallImages ==
    {Array(MaxDim, MaxDim, 2), Array(MaxDim, MaxDim, 3), PathTo(MaxDim, MaxDim),
     BadPath, Array(0, 0, 2)}

ClassifierAnswer(img) ==
    IF img.kind = "array" /\ img.ndim = 2
    THEN <<<<0, 0, 1, 1>>, <<0, 0, MaxSide, MaxSide>>>>
    ELSE <<>>

PipelineCalls ==
    {[op |-> c[1],
      args |-> [NoArgs EXCEPT !.image = im, !.detect_all = c[2],
                              !.faces_cv = ClassifierAnswer(Load(im)),
                              !.model_out =
                                  Repeat(<<0, 1>>, Len(ClassifierAnswer(Load(im))))]] :
        c \in {<<"process", TRUE>>, <<"process", FALSE>>,
               <<"process_single", FALSE>>},
        im \in CallImages}

\* The call just finished, as a caller remembers it.
Remembered ==
    [op |-> op, image |-> args.image, detect_all |-> args.detect_all,
     outcome |-> outcome, value |-> value]

\* The caller makes one more call on the same pipeline.
pipeline_call_again ==
    /\ pc = "done" /\ calls < MaxCalls
    /\ calls' = calls + 1
    /\ history' = history \cup {Remembered}
    /\ pc' = "ready"
    /\ outcome' = "pending"
    /\ value' = NoValue
    /\ log' = <<>>
    /\ \E c \in PipelineCalls : op' = c.op /\ args' = c.args
    /\ UNCHANGED <<image_size, scale_factor, min_neighbors>>

InitPipelineCalls ==
    /\ pc = "ready"
    /\ image_size = DEFAULT_IMAGE_SIZE
    /\ scale_factor = DEFAULT_SCALE_FACTOR
    /\ min_neighbors = DEFAULT_MIN_NEIGHBORS
    /\ calls = 0
    /\ history = {}
    /\ outcome = "pending"
    /\ value = NoValue
    /\ log = <<>>
    /\ \E c \in PipelineCalls : op = c.op /\ args = c.args
NextPipelineCalls == process \/ process_single \/ pipeline_call_again
SpecPipelineCalls == InitPipelineCalls /\ [][NextPipelineCalls]_vars

\* The result of a process call in the hands of the caller, who assigns a
\* field of one of its faces or edits its list of faces.
NewFieldValue(field) ==
    CASE field = "bounding_box" -> BoundingBox(-1, -1, 0, 0)
      [] field = "keypoints" -> <<>>
      [] field = "confidence" -> 0

assign_face_field ==
    /\ pc = "done" /\ op = "process" /\ outcome = "ok"
    /\ \E i \in 1..Len(value.faces),
          f \in {"bounding_box", "keypoints", "confidence"} :
           value' = [value EXCEPT !.faces[i] = SetField(@, f, NewFieldValue(f))]
    /\ pc' = "edited"
    /\ history' = {Remembered}
    /\ UNCHANGED <<op, image_size, scale_factor, min_neighbors, calls, args,
                   outcome, log>>

edit_faces ==
    /\ pc = "done" /\ op = "process" /\ outcome = "ok"
    /\ \E e \in {"append", "pop", "reverse"} :
           /\ e = "pop" => Len(value.faces) > 0
           /\ value' = SetField(value, "faces",
                   ListEdit(value.faces, e,
                       FaceKeypointsResult(BoundingBox(-1, -1, 0, 0), <<>>)))
    /\ pc' = "edited"
    /\ history' = {Remembered}
    /\ UNCHANGED <<op, image_size, scale_factor, min_neighbors, calls, args,
                   outcome, log>>

InitResults ==
    /\ pc = "ready"
    /\ scale_factor = DEFAULT_SCALE_FACTOR
    /\ min_neighbors = DEFAULT_MIN_NEIGHBORS
    /\ calls = 0
    /\ history = {}
    /\ outcome = "pending"
    /\ value = NoValue
    /\ log = <<>>
    /\ op = "process" /\ DrawResults
NextResults == process \/ assign_face_field \/ edit_faces
SpecResults == InitResults /\ [][NextResults]_vars

\* Every operation.
Init == InitOf(Operations)
Next ==
    \/ NextDetector \/ NextPredictor \/ NextPipeline
    \/ NextBoundingBox \/ NextConstruction \/ NextErrors
Spec == Init /\ [][Next]_vars

(***************************************************************************)
(* Vocabulary of the properties.                                           *)
(***************************************************************************)
Done(o) == pc = "done" /\ op = o

\* The image the call works on is a non-empty array.
ValidImage == Load(args.image).kind = "array" /\ ImgSize(Load(args.image)) > 0

\* The boxes of the classifier's rectangles, in the order reported.
Reported ==
    [i \in 1..Len(args.faces_cv) |->
        BoundingBox(args.faces_cv[i][1], args.faces_cv[i][2],
                    args.faces_cv[i][3], args.faces_cv[i][4])]

BoxesOf(faces) == [i \in 1..Len(faces) |-> faces[i].bounding_box]

\* The rectangle [x, x + width) x [y, y + height) lies inside the h x w image.
Inside(b, img) ==
    /\ 0 <= b.x /\ b.x + b.width <= img.w
    /\ 0 <= b.y /\ b.y + b.height <= img.h

AllZero(v) == \A i \in 1..Len(v) : v[i] = 0

(***************************************************************************)
(* C1: predict_on_original returns, for each keypoint of raw output        *)
(* (vx, vy), x = (vx*48+48) * (W / image_size) + bx and                    *)
(* y = (vy*48+48) * (H / image_size) + by, where W x H is the crop size    *)
(* handed over as original_shape and (bx, by) the crop origin: denormalise, *)
(* scale, then translate.                                                  *)
(***************************************************************************)
C1_ScaleThenTranslate ==
    Done("predict_on_original") =>
        /\ outcome = "ok"
        /\ Len(value) = Len(args.model_out[1]) \div 2
        /\ \A k \in 1..Len(value) :
              LET vx == args.model_out[1][2 * k - 1]
                  vy == args.model_out[1][2 * k]
                  W == args.original_shape[2]
                  H == args.original_shape[1]
              IN  /\ value[k][1] = Rat((vx * 48 + 48) * W + args.bbox_x * image_size,
                                       image_size)
                  /\ value[k][2] = Rat((vy * 48 + 48) * H + args.bbox_y * image_size,
                                       image_size)

\* A crop of 2 x 1 pixels at origin (2, -1), passed with its own shape, and a
\* raw output of (1, -1): scaling and translating do not commute here.
C1_Witness ==
    /\ Done("predict_on_original")
    /\ args.original_shape = <<args.image.h, args.image.w>>
    /\ args.image.w = 2 /\ args.image.h = 1
    /\ args.bbox_x = 2 /\ args.bbox_y = -1
    /\ args.model_out[1] = <<1, -1>>
    /\ value = <<<<Rat(96 * 2 + 2 * image_size, image_size), <<-1, 1>>>>>>

(***************************************************************************)
(* C2 as claimed: a single reported box (x, y, w, h) lying inside the      *)
(* image and a raw output of zeros make process return exactly one result, *)
(* with that box and every keypoint at (x + 48*w/96, y + 48*h/96).         *)
(***************************************************************************)
SingleBoxZeroOutput ==
    /\ Done("process")
    /\ ValidImage
    /\ Len(args.faces_cv) = 1
    /\ Inside(Reported[1], Load(args.image))
    /\ AllZero(args.model_out[1])

OneResultAtBoxCentre ==
    /\ outcome = "ok"
    /\ Len(value.faces) = 1
    /\ value.faces[1].bounding_box = Reported[1]
    /\ Len(value.faces[1].keypoints) = Len(args.model_out[1]) \div 2
    /\ \A k \in 1..Len(value.faces[1].keypoints) :
          value.faces[1].keypoints[k] =
              <<Rat(96 * Reported[1].x + 48 * Reported[1].width, 96),
                Rat(96 * Reported[1].y + 48 * Reported[1].height, 96)>>

C2_AsClaimed == SingleBoxZeroOutput => OneResultAtBoxCentre

(***************************************************************************)
(* C2 amended: the same, for a box of positive width and height and a      *)
(* predictor whose input size is the default 96; for the 96x96 image with  *)
(* box (10, 10, 50, 50) each of the 15 keypoints is (35, 35).              *)
(***************************************************************************)
C2_EndToEnd ==
    /\ (SingleBoxZeroOutput /\ Reported[1].width > 0 /\ Reported[1].height > 0
            /\ image_size = DEFAULT_IMAGE_SIZE)
        => OneResultAtBoxCentre
    /\ (Done("process") /\ args.image = ScenarioImage)
        => /\ outcome = "ok"
           /\ BoxesOf(value.faces) = <<BoundingBox(10, 10, 50, 50)>>
           /\ value.faces[1].keypoints = [k \in 1..15 |-> <<<<35, 1>>, <<35, 1>>>>]

C2_Witness ==
    /\ Done("process")
    /\ args.image = ScenarioImage
    /\ args.faces_cv = <<ScenarioRect>>
    /\ AllZero(args.model_out[1])
    /\ outcome = "ok"
    /\ Len(value.faces) = 1

(***************************************************************************)
(* C3: with detect_all, the faces of the result are exactly the reported   *)
(* boxes whose crop (the slice process takes) is non-empty, in the order   *)
(* reported; an empty crop adds no entry and raises nothing.               *)
(***************************************************************************)
CropIsNonEmpty(b) == ImgSize(InlineCrop(Load(args.image), b)) > 0

C3_NonEmptyCropsInOrder ==
    (Done("process") /\ args.detect_all /\ ValidImage) =>
        /\ outcome = "ok"
        /\ BoxesOf(value.faces) = SelectSeq(Reported, CropIsNonEmpty)

\* An empty crop reported before a non-empty one.
C3_Witness ==
    /\ Done("process") /\ args.detect_all /\ ValidImage
    /\ Len(Reported) = 2
    /\ ~CropIsNonEmpty(Reported[1])
    /\ CropIsNonEmpty(Reported[2])
    /\ outcome = "ok"
    /\ BoxesOf(value.faces) = <<Reported[2]>>

(***************************************************************************)
(* C4 as claimed: a reported box lying fully outside the image, on         *)
(* whichever side, has no entry in the result of process, no error is      *)
(* raised, and every box inside the image with positive area has its       *)
(* entry.                                                                  *)
(***************************************************************************)
FullyOutside(b, img) ==
    \/ b.x + b.width <= 0
    \/ b.y + b.height <= 0
    \/ b.x >= img.w
    \/ b.y >= img.h

C4_OutsideBoxSkipped ==
    (Done("process") /\ args.detect_all /\ ValidImage) =>
        /\ outcome = "ok"
        /\ \A i \in 1..Len(value.faces) :
              ~FullyOutside(value.faces[i].bounding_box, Load(args.image))
        /\ \A i \in 1..Len(Reported) :
              (Inside(Reported[i], Load(args.image)) /\ area(Reported[i]) > 0)
                  => \E j \in 1..Len(value.faces) :
                        value.faces[j].bounding_box = Reported[i]

C6_TwoOutcomes ==
    (Done("process_single") /\ ValidImage) =>
        IF args.faces_cv = <<>>
        THEN outcome = "NoFaceDetectedError"
        ELSE /\ outcome = "ok"
             /\ value.bounding_box = MaxByArea(Reported)

(***************************************************************************)
(* C7: detect_single raises NoFaceDetectedError when detect returns the    *)
(* empty list; otherwise it returns the box of maximal area, and of        *)
(* several such boxes the one that comes first in the list.                *)
(***************************************************************************)
C7_FirstLargest ==
    (Done("detect_single") /\ ValidImage) =>
        IF args.faces_cv = <<>>
        THEN outcome = "NoFaceDetectedError"
        ELSE /\ outcome = "ok"
             /\ \E i \in 1..Len(Reported) :
                   /\ value = Reported[i]
                   /\ \A j \in 1..Len(Reported) :
                         Reported[j].width * Reported[j].height
                             <= Reported[i].width * Reported[i].height
                   /\ \A j \in 1..(i - 1) :
                         Reported[j].width * Reported[j].height
                             < Reported[i].width * Reported[i].height

\* Two different boxes of the same, maximal, area: the first is returned.
C7_Witness ==
    /\ Done("detect_single") /\ ValidImage
    /\ Len(Reported) = 2
    /\ Reported[1] # Reported[2]
    /\ area(Reported[1]) = area(Reported[2])
    /\ area(Reported[1]) > 0
    /\ outcome = "ok"
    /\ value = Reported[1]

(***************************************************************************)
(* C8: detect on None or on an array without elements raises               *)
(* InvalidImageError, returns no list, and has not invoked the classifier. *)
(***************************************************************************)
Invoked(call) == \E i \in 1..Len(log) : log[i].call = call

C8_InvalidImageRaises ==
    (Done("detect") /\ ~ValidImage) =>
        /\ outcome = "InvalidImageError"
        /\ value = NoValue
        /\ ~Invoked("detectMultiScale")
        /\ ~Invoked("cv2.cvtColor")

\* An empty array, for a classifier that would have reported boxes.
C8_Witness ==
    /\ Done("detect")
    /\ args.image.kind = "array" /\ ImgSize(args.image) = 0
    /\ args.faces_cv # <<>>
    /\ outcome = "InvalidImageError"

(***************************************************************************)
(* C9: process validates its input before it detects.  An unreadable path, *)
(* None or an empty image raise InvalidImageError, and neither the         *)
(* detector's classifier nor the predictor was invoked.                    *)
(***************************************************************************)
C9_ValidationFirst ==
    (Done("process") /\ ~ValidImage) =>
        /\ outcome = "InvalidImageError"
        /\ \A i \in 1..Len(log) : log[i].call = "cv2.imread"

\* An unreadable path, for a classifier that would have reported boxes.
C9_Witness ==
    /\ Done("process")
    /\ args.image = BadPath
    /\ args.faces_cv # <<>>
    /\ outcome = "InvalidImageError"
    /\ log = <<Ev("cv2.imread", 0)>>

(***************************************************************************)
(* C10 as claimed: for every image of size w x h, every box and every      *)
(* padding >= 0, the slice bounds of crop_face satisfy 0 <= x1, x2 <= w    *)
(* and 0 <= y1, y2 <= h.                                                   *)
(***************************************************************************)
C10_BoundsInRange ==
    Done("crop_face") =>
        /\ 0 <= value.x1 /\ value.x1 <= args.image.w
        /\ 0 <= value.x2 /\ value.x2 <= args.image.w
        /\ 0 <= value.y1 /\ value.y1 <= args.image.h
        /\ 0 <= value.y2 /\ value.y2 <= args.image.h

(***************************************************************************)
(* C11 as claimed: crop_face returns an empty crop for every zero-area box *)
(* and for every box whose padded rectangle has no pixel in common with    *)
(* the image, on whichever side of the image the box lies.                 *)
(***************************************************************************)
PadX == Trunc(RatMul(RatInt(args.box.width), args.padding))
PadY == Trunc(RatMul(RatInt(args.box.height), args.padding))

\* The pixels (row, column) of the image inside the padded rectangle.
PaddedPixels ==
    {q \in (0..(args.image.h - 1)) \X (0..(args.image.w - 1)) :
        /\ args.box.y - PadY <= q[1] /\ q[1] < args.box.y + args.box.height + PadY
        /\ args.box.x - PadX <= q[2] /\ q[2] < args.box.x + args.box.width + PadX}

C11_EmptyCropOutside ==
    (Done("crop_face") /\ (area(args.box) = 0 \/ PaddedPixels = {})) =>
        /\ outcome = "ok"
        /\ ImgSize(value.crop) = 0

(***************************************************************************)
(* C12 as claimed: for every non-empty crop, process passes to             *)
(* predict_on_original the origin of the box and the actual pixel shape    *)
(* (height, width) of the crop, also when the box extends past the image   *)
(* edge and the crop is smaller than the box.                              *)
(***************************************************************************)
C12_ActualCropShape ==
    Done("process") =>
        \A i \in 1..Len(log) :
            log[i].call = "predict_on_original" =>
                /\ log[i].bbox_x = args.faces_cv[log[i].box][1]
                /\ log[i].bbox_y = args.faces_cv[log[i].box][2]
                /\ log[i].original_shape
                       = <<log[i].face_crop.h, log[i].face_crop.w>>

(***************************************************************************)
(* C13: normalization inverse law.  For every raw value v the network      *)
(* returns, the predictor's denormalization gives v * 48 + 48, and the     *)
(* loader's training normalization (c - 48) / 48 applied to that result    *)
(* returns v: the predictor and the loader use the same pair of constants. *)
(***************************************************************************)
Flat(k, j) == 2 * (k - 1) + j

C13_NormalizationInverse ==
    (Done("predict") /\ args.denormalize) =>
        \A k \in 1..Len(value.keypoints) : \A j \in 1..2 :
            LET v == args.model_out[1][Flat(k, j)]
                c == value.keypoints[k][j]
            IN  /\ c = v * 48 + 48
                /\ Normalize(c) = RatInt(v)

C13_Witness ==
    /\ Done("predict") /\ args.denormalize
    /\ args.model_out[1] = <<-1, 1>>
    /\ value.keypoints = <<<<0, 96>>>>

(***************************************************************************)
(* C14 as claimed: predict with denormalize = true maps every raw value in *)
(* [-1, 1] into the pixel range [0, image_size] of the predictor's         *)
(* configured input size, for every allowed image_size: -1 maps to 0, 0 to *)
(* image_size / 2 and 1 to image_size.                                     *)
(***************************************************************************)
C14_PixelRangeOfInputSize ==
    (Done("predict") /\ args.denormalize) =>
        \A k \in 1..Len(value.keypoints) : \A j \in 1..2 :
            LET v == args.model_out[1][Flat(k, j)]
                c == value.keypoints[k][j]
            IN  /\ 0 <= c /\ c <= image_size
                /\ v = -1 => c = 0
                /\ v = 0 => 2 * c = image_size
                /\ v = 1 => c = image_size

(***************************************************************************)
(* C15: predict returns both the keypoint pairs and the raw flat output.   *)
(* For a flat output of length 2K the keypoints have exactly K rows, row i *)
(* (counted from 0) is (f(raw[2i]), f(raw[2i+1])) with f = v * 48 + 48     *)
(* when denormalize is true and f the identity otherwise, and raw_output   *)
(* holds the values before denormalization in both cases.                  *)
(***************************************************************************)
C15_PairsAndRawOutput ==
    Done("predict") =>
        LET raw == args.model_out[1]
            K == Len(raw) \div 2
        IN  /\ outcome = "ok"
            /\ Len(raw) = 2 * K
            /\ Len(value.keypoints) = K
            /\ \A i \in 0..(K - 1) :
                   value.keypoints[i + 1] =
                       IF args.denormalize
                       THEN <<raw[2 * i + 1] * 48 + 48, raw[2 * i + 2] * 48 + 48>>
                       ELSE <<raw[2 * i + 1], raw[2 * i + 2]>>
            /\ value.raw_output = raw

C15_Witness ==
    /\ Done("predict") /\ args.denormalize
    /\ args.model_out[1] = <<-1, 0, 1, 0>>
    /\ value.keypoints = <<<<0, 48>>, <<96, 48>>>>
    /\ value.raw_output = <<-1, 0, 1, 0>>

(***************************************************************************)
(* C16: after any sequence of detect and detect_single calls, with or      *)
(* without per-call overrides, the detector's stored scale_factor and      *)
(* min_neighbors are the values set at construction; a call without an     *)
(* override uses the stored value and a call with an override uses the     *)
(* override, for that call only.                                           *)
(***************************************************************************)
Scans == {i \in 1..Len(log) : log[i].call = "detectMultiScale"}

UsesStoredOrOverride ==
    (pc = "done" /\ op \in {"detect", "detect_single"}) =>
        \A i \in Scans :
            /\ log[i].scale = IF args.scale_factor.given
                              THEN args.scale_factor.v ELSE scale_factor
            /\ log[i].neighbors = IF args.min_neighbors.given
                                  THEN args.min_neighbors.v ELSE min_neighbors

StoredParametersKept ==
    /\ scale_factor' = scale_factor
    /\ min_neighbors' = min_neighbors

C16_OverridesLastOneCall ==
    /\ []UsesStoredOrOverride
    /\ [][StoredParametersKept]_vars

\* A later call without overrides, on a detector constructed with values of
\* its own, scans with the values of the construction.
C16_Witness ==
    /\ calls >= 1 /\ Done("detect")
    /\ scale_factor = <<3, 2>> /\ min_neighbors = 3
    /\ ~args.scale_factor.given /\ ~args.min_neighbors.given
    /\ Scans # {}
    /\ \A i \in Scans : log[i].scale = <<3, 2>> /\ log[i].neighbors = 3

(***************************************************************************)
(* C17: constructing a FaceDetector with a classifier path at which no     *)
(* file exists, or with a file that loads as an empty cascade, fails with  *)
(* FaceDetectionError and yields no detector; a detector that was          *)
(* constructed holds a non-empty loaded cascade.                           *)
(***************************************************************************)
CascadeFile ==
    args.files[IF args.cascade_path.given /\ args.cascade_path.v # ""
               THEN args.cascade_path.v ELSE DEFAULT_CASCADE_PATH]

C17_NoDetectorWithoutCascade ==
    Done("FaceDetector") =>
        /\ CascadeFile # "cascade" =>
               outcome = "FaceDetectionError" /\ value = NoValue
        /\ outcome = "ok" =>
               /\ CascadeFile = "cascade"
               /\ ~value.cascade.empty
               /\ Invoked("cv2.CascadeClassifier")

C17_Witness ==
    /\ Done("FaceDetector")
    /\ args.cascade_path = Given("custom.xml")
    /\ args.files["custom.xml"] = "other"
    /\ args.files[DEFAULT_CASCADE_PATH] = "cascade"
    /\ Invoked("cv2.CascadeClassifier")
    /\ outcome = "FaceDetectionError" /\ value = NoValue

(***************************************************************************)
(* C18: constructing a KeypointPredictor with no file at the model path,   *)
(* or with a file whose deserialization raises, fails with ModelLoadError; *)
(* constructing the pipeline fails whenever its detector or its predictor  *)
(* fails to construct, so that no pipeline exists with only one of the two *)
(* components loaded.                                                      *)
(***************************************************************************)
ModelFile ==
    args.files[IF args.model_path.given /\ args.model_path.v # ""
               THEN args.model_path.v ELSE DEFAULT_MODEL_PATH]

C18_NoPartialPipeline ==
    /\ Done("KeypointPredictor") =>
           /\ ModelFile # "model" =>
                  outcome = "ModelLoadError" /\ value = NoValue
           /\ outcome = "ok" => ModelFile = "model" /\ value.model = "loaded"
    /\ Done("FacialKeypointsPipeline") =>
           /\ CascadeFile # "cascade" =>
                  outcome = "FaceDetectionError" /\ value = NoValue
           /\ (CascadeFile = "cascade" /\ ModelFile # "model") =>
                  outcome = "ModelLoadError" /\ value = NoValue
           /\ outcome = "ok" =>
                  /\ ~value.face_detector.cascade.empty
                  /\ value.keypoint_predictor.model = "loaded"

C18_Witness ==
    /\ Done("FacialKeypointsPipeline")
    /\ CascadeFile = "cascade" /\ ModelFile = "other"
    /\ Invoked("cv2.CascadeClassifier") /\ Invoked("keras.models.load_model")
    /\ outcome = "ModelLoadError" /\ value = NoValue

(***************************************************************************)
(* C19: for every BoundingBox (x, y, width, height), zero-area and         *)
(* zero-origin boxes included, center is (x + width // 2, y + height // 2) *)
(* with floor division, area is width * height and to_tuple() is           *)
(* (x, y, width, height).                                                  *)
(***************************************************************************)
\* q is the floor of n / 2.
IsFloorOfHalf(q, n) == 2 * q <= n /\ n <= 2 * q + 1

C19_DerivedValues ==
    Done("BoundingBox") =>
        LET b == args.box
        IN  /\ outcome = "ok"
            /\ IsFloorOfHalf(value.center[1] - b.x, b.width)
            /\ IsFloorOfHalf(value.center[2] - b.y, b.height)
            /\ value.area = b.width * b.height
            /\ value.to_tuple = <<b.x, b.y, b.width, b.height>>

\* An odd width at the origin, no height: centre (0, 0), area 0.
C19_Witness ==
    /\ Done("BoundingBox")
    /\ args.box = BoundingBox(0, 0, 1, 0)
    /\ value.center = <<0, 0>>
    /\ value.area = 0
    /\ value.to_tuple = <<0, 0, 1, 0>>

(***************************************************************************)
(* C20: a BoundingBox is immutable: every attempt to assign one of its     *)
(* fields after creation fails and leaves x, y, width and height as they   *)
(* were.                                                                   *)
(***************************************************************************)
C20_FrozenBox ==
    Done("setattr") =>
        /\ outcome = "FrozenInstanceError"
        /\ value = args.box

C20_Witness ==
    /\ Done("setattr")
    /\ args.field = "x" /\ args.new_value # args.box.x
    /\ outcome = "FrozenInstanceError"
    /\ value.x = args.box.x

(***************************************************************************)
(* C21: process is stateless across calls.  Whatever process and           *)
(* process_single calls were made before on the pipeline, failed calls     *)
(* included, a call on the same image with the same detect_all returns the *)
(* same boxes and keypoints (the classifier and the network being          *)
(* deterministic), and no call changes a field of the pipeline, of its     *)
(* detector or of its predictor.                                           *)
(***************************************************************************)
SameCallSameResult ==
    pc = "done" =>
        \A h \in history :
            (h.op = op /\ h.image = args.image /\ h.detect_all = args.detect_all)
                => (h.outcome = outcome /\ h.value = value)

FieldsKept ==
    /\ image_size' = image_size
    /\ scale_factor' = scale_factor
    /\ min_neighbors' = min_neighbors

C21_StatelessAcrossCalls ==
    /\ []SameCallSameResult
    /\ [][FieldsKept]_vars

\* The third call repeats the first, whose two faces it returns again, after
\* a call that failed.
C21_Witness ==
    /\ calls = 2 /\ Done("process")
    /\ args.image = Array(MaxDim, MaxDim, 2) /\ args.detect_all
    /\ outcome = "ok" /\ Len(value.faces) = 2
    /\ \E h \in history :
           /\ h.op = "process" /\ h.image = args.image /\ h.detect_all
           /\ h.value = value
    /\ \E h \in history : h.outcome = "InvalidImageError"

(***************************************************************************)
(* C22 as claimed: FaceKeypointsResult and PipelineResult are immutable    *)
(* once process has returned them: no later operation replaces a result's  *)
(* bounding_box, keypoints or confidence, or adds, removes or reorders the *)
(* entries of a PipelineResult's faces; and the confidence of every        *)
(* FaceKeypointsResult that process creates is 1.0.                        *)
(***************************************************************************)
ConfidenceIsOne ==
    (Done("process") /\ outcome = "ok") =>
        \A i \in 1..Len(value.faces) : value.faces[i].confidence = 1

ResultAsReturned ==
    pc = "edited" => \A h \in history : value = h.value

C22_ResultsImmutable == ConfidenceIsOne /\ ResultAsReturned

(***************************************************************************)
(* C23 as claimed: every BoundingBox has width >= 0 and height >= 0: no    *)
(* BoundingBox with a negative dimension can be created, or appear in a    *)
(* detect result or in a PipelineResult.                                   *)
(***************************************************************************)
NonNegative(b) == b.width >= 0 /\ b.height >= 0

C23_NonNegativeDimensions ==
    /\ (Done("BoundingBox_init") /\ outcome = "ok") => NonNegative(value)
    /\ (Done("detect") /\ outcome = "ok") =>
           \A i \in 1..Len(value) : NonNegative(value[i])
    /\ (Done("detect_single") /\ outcome = "ok") => NonNegative(value)
    /\ (Done("process") /\ outcome = "ok") =>
           \A i \in 1..Len(value.faces) : NonNegative(value.faces[i].bounding_box)
    /\ (Done("process_single") /\ outcome = "ok") =>
           NonNegative(value.bounding_box)

(***************************************************************************)
(* C24: a NoFaceDetectedError always carries a message containing          *)
(* 'No face detected'; created with an image path, its message contains    *)
(* that path as well and image_path equals it; created without one,        *)
(* image_path is None.                                                     *)
(***************************************************************************)
C24_MessageNamesImage ==
    Done("NoFaceDetectedError") =>
        /\ outcome = "ok"
        /\ Contains(value.message, <<"No face detected">>)
        /\ args.image_path.given =>
               /\ Contains(value.message, args.image_path.v)
               /\ value.image_path = Given(args.image_path.v)
        /\ ~args.image_path.given => value.image_path = NotGiven

C24_Witness ==
    /\ Done("NoFaceDetectedError")
    /\ args.image_path = Given(<<"/", "a">>)
    /\ value.message = <<"No face detected", " in ", "/", "a">>
    /\ value.image_path = Given(<<"/", "a">>)

(***************************************************************************)
(* C25 as claimed: detect converts the image to single-channel grayscale   *)
(* exactly when it has 3 channels; every single-channel image, shaped      *)
(* (H, W) or (H, W, 1), is handed to the classifier unchanged and without  *)
(* a colour conversion.                                                    *)
(***************************************************************************)
C25_GrayOnlyForColour ==
    (Done("detect") /\ ValidImage) =>
        /\ Invoked("cv2.cvtColor") <=> args.image.channels = 3
        /\ args.image.channels = 1 =>
               outcome = "ok" /\ Invoked("detectMultiScale")

(***************************************************************************)
(* C26: within one process call the steps are strictly sequential:         *)
(* detection has returned before the first crop is taken, the prediction   *)
(* for box i has returned before box i+1 is cropped, the boxes are visited *)
(* in list order, and the loop ends after exactly one visit per detected   *)
(* box, after which the PipelineResult is returned.                        *)
(***************************************************************************)
IsCrop(e) == e.call = "crop"

\* The boxes the detector handed to the loop.
Detected == IF args.detect_all THEN Len(args.faces_cv) ELSE 1

C26_StrictlySequential ==
    (Done("process") /\ outcome = "ok") =>
        LET Crops == SelectSeq(log, IsCrop)
        IN  /\ Invoked("detectMultiScale")
            /\ \A j \in 1..Len(log) :
                   log[j].call \in {"cv2.imread", "detectMultiScale"}
                       => log[j].box = 0
            /\ Len(Crops) = Detected
            /\ \A i \in 1..Len(Crops) : Crops[i].box = i
            /\ \A j \in 1..Len(log) : \A k \in j..Len(log) :
                   log[j].box <= log[k].box
            /\ \A j \in 1..Len(log) :
                   (log[j].box >= 1 /\ ~IsCrop(log[j])) =>
                       \E c \in 1..(j - 1) :
                           IsCrop(log[c]) /\ log[c].box = log[j].box
            /\ value.image = Load(args.image)

\* Two boxes with a crop each: crop, prediction, crop, prediction.
C26_Witness ==
    /\ Done("process") /\ outcome = "ok"
    /\ Len(args.faces_cv) = 2 /\ Len(value.faces) = 2
    /\ \E a, b, c, d \in 1..Len(log) :
           /\ a < b /\ b < c /\ c < d
           /\ log[a] = Ev("crop", 1) /\ log[b] = Ev("model.predict", 1)
           /\ log[c] = Ev("crop", 2) /\ log[d] = Ev("model.predict", 2)

(***************************************************************************)
(* C27: for every box returned in a PipelineResult and every raw model     *)
(* output in [-1, 1], with the default input size 96, each keypoint of the *)
(* face lies inside its bounding box, x <= kx <= x + width and             *)
(* y <= ky <= y + height, and so lies within the extent of the original    *)
(* image whenever the box lies inside the image.                           *)
(***************************************************************************)
\* p <= q for rationals of positive denominator.
RatLeq(p, q) == p[1] * q[2] <= q[1] * p[2]

Between(lo, p, hi) == RatLeq(RatInt(lo), p) /\ RatLeq(p, RatInt(hi))

C27_KeypointsInsideBox ==
    (Done("process") /\ outcome = "ok" /\ image_size = DEFAULT_IMAGE_SIZE) =>
        \A i \in 1..Len(value.faces) :
            LET b == value.faces[i].bounding_box
                kp == value.faces[i].keypoints
            IN  \A k \in 1..Len(kp) :
                    /\ Between(b.x, kp[k][1], b.x + b.width)
                    /\ Between(b.y, kp[k][2], b.y + b.height)
                    /\ Inside(b, value.image) =>
                           /\ Between(0, kp[k][1], value.image.w)
                           /\ Between(0, kp[k][2], value.image.h)

\* A box inside the image away from its origin, and a raw output of zeros:
\* the keypoint is the middle of the box.
C27_Witness ==
    /\ Done("process") /\ outcome = "ok" /\ image_size = DEFAULT_IMAGE_SIZE
    /\ args.image = Array(MaxDim, MaxDim, 2)
    /\ Len(value.faces) = 1
    /\ value.faces[1].bounding_box = BoundingBox(1, 1, 1, 1)
    /\ Inside(value.faces[1].bounding_box, value.image)
    /\ value.faces[1].keypoints = <<<<Rat(3, 2), Rat(3, 2)>>>>

(***************************************************************************)
(* C28 as claimed: every non-empty crop that process hands to the          *)
(* predictor consists only of image pixels inside the box rectangle        *)
(* [x, x + width) x [y, y + height); in particular a box with a negative x *)
(* or y never yields a crop taken from the opposite side of the image.     *)
(***************************************************************************)
Predictions == {i \in 1..Len(log) : log[i].call = "predict_on_original"}

C28_CropInsideBox ==
    Done("process") =>
        \A i \in Predictions :
            LET crop == log[i].face_crop
                x == log[i].bbox_x
                y == log[i].bbox_y
                shape == log[i].original_shape
            IN  /\ x <= crop.x0 /\ crop.x0 + crop.w <= x + shape[2]
                /\ y <= crop.y0 /\ crop.y0 + crop.h <= y + shape[1]

(***************************************************************************)
(* C29 as claimed: for every image and every box, the region process crops *)
(* inline for that box is the region crop_face(image, box, padding = 0.0)  *)
(* returns, so that the pipeline and the detector's crop_face agree on     *)
(* which boxes give an empty crop.                                         *)
(***************************************************************************)
C29_InlineCropIsCropFace ==
    (Done("crop_face") /\ args.padding = <<0, 1>>) =>
        LET inline == InlineCrop(args.image, args.box)
        IN  /\ (ImgSize(inline) = 0) <=> (ImgSize(value.crop) = 0)
            /\ ImgSize(inline) > 0 => inline = value.crop

(***************************************************************************)
(* C30: in every process call the predictor is invoked exactly once for    *)
(* each box with a non-empty crop and never for a box with an empty crop,  *)
(* so that the number of predictor invocations equals n_faces, and n_faces *)
(* never exceeds the number of boxes the detector returned (at most 1 when *)
(* detect_all is false).                                                   *)
(***************************************************************************)
\* The boxes the loop walks: all that were reported, or the largest alone.
Walked ==
    IF args.detect_all THEN Reported ELSE <<MaxByArea(Reported)>>

C30_OnePredictionPerCrop ==
    (Done("process") /\ outcome = "ok") =>
        /\ \A b \in 1..Len(Walked) :
               Cardinality({i \in Predictions : log[i].box = b})
                   = IF CropIsNonEmpty(Walked[b]) THEN 1 ELSE 0
        /\ \A i \in Predictions : log[i].box \in 1..Len(Walked)
        /\ Cardinality(Predictions) = n_faces(value)
        /\ n_faces(value) <= Len(args.faces_cv)
        /\ ~args.detect_all => n_faces(value) <= 1

\* Three predictor calls skipped or made: an empty crop between two others.
C30_Witness ==
    /\ Done("process") /\ outcome = "ok" /\ args.detect_all
    /\ Len(args.faces_cv) = 2
    /\ ~CropIsNonEmpty(Walked[1]) /\ CropIsNonEmpty(Walked[2])
    /\ Cardinality(Predictions) = 1
    /\ n_faces(value) = 1

====
